---------------------------- MODULE Spec2Model ----------------------------
(***************************************************************************)
(* A model of FormaCheck's formatter core (detectLanguage, minifyCode) and *)
(* of the App component's handlers that call it.                           *)
(*                                                                         *)
(* Texts are TLA+ strings.  A regular expression of the source is written  *)
(* as a syntax tree (Chr, Lit, Seq, Alt, Star, ...) and matched by M,      *)
(* which maps a set of start offsets to the set of offsets where a match   *)
(* can end; RegExp.prototype.test is "some match exists".  An offset p     *)
(* means "p characters consumed", so the next character is number p+1.     *)
(***************************************************************************)
EXTENDS Integers, Sequences, FiniteSets

VARIABLES
    inputCode,      \* App state: useState inputCode
    outputCode,     \* App state: useState outputCode
    language,       \* App state: useState language
    error,          \* App state: useState error (Null or a message)
    notification,   \* App state: useState notification (Null or a message)
    timers,         \* the pending setTimeout callbacks of showNotification
    handler,        \* the handler that ran last
    pc,             \* position of a single call of a pure function
    content,        \* argument of the single call: the text
    lang,           \* argument of the single call: the language tag
    result,         \* outcome of the single call
    history,        \* the calls of the pure functions made so far, in order
    autoUpdate,     \* App state: useState autoUpdate
    viewMode,       \* App state: useState viewMode
    debounce,       \* the pending timers of the debounce effect: ms left each
    notices,        \* the pending timers of showNotification, oldest first: ms left each
    sinceChange,    \* ms since inputCode, language, autoUpdate or viewMode changed
    shownFor,       \* ms since showNotification set the notification
    models,         \* DiffViewer: the text of the model of each side, or Null
    captured,       \* DiffViewer: the props the listeners of the models closed over
    editorContent,  \* JsonVisualEditor: the content of the JSONEditor, or Null
    lastEmittedValue \* JsonVisualEditor: useRef lastEmittedValue

timedVars == <<autoUpdate, viewMode, debounce, notices, sinceChange, shownFor>>
viewVars == <<models, captured, editorContent, lastEmittedValue>>

vars == <<inputCode, outputCode, language, error, notification, timers,
          handler, pc, content, lang, result, history, timedVars, viewVars>>

appVars == <<inputCode, outputCode, language, error, notification, timers, handler,
             timedVars, viewVars>>
callVars == <<pc, content, lang, result, history>>

-----------------------------------------------------------------------------
(* Language (src/types.ts) *)

JSON == "json"
JAVASCRIPT == "javascript"
TYPESCRIPT == "typescript"
HTML == "html"
CSS == "css"
XML == "xml"
SQL == "sql"
MARKDOWN == "markdown"

Language == {JSON, JAVASCRIPT, TYPESCRIPT, HTML, CSS, XML, SQL, MARKDOWN}

-----------------------------------------------------------------------------
(* Characters and character classes *)

SetOf(str) == {SubSeq(str, i, i) : i \in 1..Len(str)}
\* String.prototype.charAt, counting from 1: "" outside the string.
charAt(s, i) == IF i >= 1 /\ i <= Len(s) THEN SubSeq(s, i, i) ELSE ""

\* The characters number i to j of s that exist.
slice(s, i, j) ==
    LET lo == IF i < 1 THEN 1 ELSE i
        hi == IF j > Len(s) THEN Len(s) ELSE j
    IN  IF lo > hi THEN "" ELSE SubSeq(s, lo, hi)

UpperAlpha == "ABCDEFGHIJKLMNOPQRSTUVWXYZ"
LowerAlpha == "abcdefghijklmnopqrstuvwxyz"

Uppers == SetOf(UpperAlpha)
Lowers == SetOf(LowerAlpha)
Digits == SetOf("0123456789")

\* \s of a JavaScript regular expression, and what String.prototype.trim
\* strips, among the characters a TLA+ string can hold.
WhiteSpace == {" ", "\t", "\n", "\r", "\f"}

\* The characters "." does not match and at which ^ and $ anchor under /m.
LineTerminators == {"\n", "\r"}

\* \w
WordChars == Uppers \cup Lowers \cup Digits \cup {"_"}

SetMin(S) == CHOOSE x \in S : \A y \in S : x <= y
SetMax(S) == CHOOSE x \in S : \A y \in S : x >= y

RECURSIVE Recase(_, _, _)
\* The text with each character of the alphabet from replaced by the one at
\* the same place of the alphabet to, one half of the text after the other.
Recase(s, from, to) ==
    IF Len(s) = 0 THEN ""
    ELSE IF Len(s) = 1
    THEN IF \E k \in 1..Len(from) : charAt(from, k) = s
         THEN charAt(to, CHOOSE k \in 1..Len(from) : charAt(from, k) = s)
         ELSE s
    ELSE Recase(slice(s, 1, Len(s) \div 2), from, to)
         \o Recase(slice(s, Len(s) \div 2 + 1, Len(s)), from, to)

\* String.prototype.toUpperCase
ToUpper(s) == Recase(s, LowerAlpha, UpperAlpha)

\* String.prototype.toLowerCase
ToLower(s) == Recase(s, UpperAlpha, LowerAlpha)

\* String.prototype.trim
trim(s) ==
    LET keep == {i \in 1..Len(s) : charAt(s, i) \notin WhiteSpace}
    IN  IF keep = {} THEN "" ELSE slice(s, SetMin(keep), SetMax(keep))

startsWith(s, prefix) ==
    Len(s) >= Len(prefix) /\ slice(s, 1, Len(prefix)) = prefix

endsWith(s, suffix) ==
    Len(s) >= Len(suffix) /\ slice(s, Len(s) - Len(suffix) + 1, Len(s)) = suffix

-----------------------------------------------------------------------------
(* Regular expressions *)

Chr(set) == [op |-> "chr", set |-> set]               \* [abc]
NotChr(set) == [op |-> "nchr", set |-> set]           \* [^abc]
Lit(str) == [op |-> "lit", str |-> str]               \* abc
Words(set) == [op |-> "words", set |-> set]           \* (abc|de|f)
SeqOf(rs) == [op |-> "seq", rs |-> rs]                \* r1 r2 ... rn
AltOf(rs) == [op |-> "alt", rs |-> rs]                \* r1|r2|...|rn
Star(r) == [op |-> "star", r |-> r]                   \* r*
Plus(r) == [op |-> "seq", rs |-> <<r, Star(r)>>]      \* r+
Opt(r) == [op |-> "rep", r |-> r, lo |-> 0, hi |-> 1] \* r?
Rep(r, lo, hi) == [op |-> "rep", r |-> r, lo |-> lo, hi |-> hi]  \* r{lo,hi}
Bol == [op |-> "bol"]                                 \* ^ without /m
BolM == [op |-> "bolm"]                               \* ^ under /m
EolM == [op |-> "eolm"]                               \* $ under /m
Wb == [op |-> "wb"]                                   \* \b

Ws == Chr(WhiteSpace)                                 \* \s
AnyChar == NotChr({})                                 \* [\s\S]
Dot == NotChr(LineTerminators)                        \* .

IsWordAt(s, i) == i >= 1 /\ i <= Len(s) /\ charAt(s, i) \in WordChars

RECURSIVE M(_, _, _), MSeq(_, _, _, _), MRep(_, _, _, _, _), MStar(_, _, _, _)

\* The offsets at which a match of re that starts at an offset of P can end.
M(re, s, P) ==
    CASE re.op = "chr" ->
           {p + 1 : p \in {q \in P : q < Len(s) /\ charAt(s, q + 1) \in re.set}}
      [] re.op = "nchr" ->
           {p + 1 : p \in {q \in P : q < Len(s) /\ charAt(s, q + 1) \notin re.set}}
      [] re.op = "lit" ->
           {p + Len(re.str) :
               p \in {q \in P : slice(s, q + 1, q + Len(re.str)) = re.str}}
      [] re.op = "words" ->
           UNION {{p + Len(w) : p \in {q \in P : slice(s, q + 1, q + Len(w)) = w}} :
                     w \in re.set}
      [] re.op = "seq" -> MSeq(re.rs, s, P, 1)
      [] re.op = "alt" -> UNION {M(re.rs[i], s, P) : i \in DOMAIN re.rs}
      [] re.op = "star" -> MStar(re.r, s, P, P)
      [] re.op = "rep" -> MRep(re.r, s, P, re.lo, re.hi)
      [] re.op = "bol" -> {p \in P : p = 0}
      [] re.op = "bolm" -> {p \in P : p = 0 \/ charAt(s, p) \in LineTerminators}
      [] re.op = "eolm" ->
           {p \in P : p = Len(s) \/ charAt(s, p + 1) \in LineTerminators}
      [] re.op = "wb" -> {p \in P : IsWordAt(s, p) # IsWordAt(s, p + 1)}

MSeq(rs, s, P, i) ==
    IF i > Len(rs) \/ P = {} THEN P ELSE MSeq(rs, s, M(rs[i], s, P), i + 1)

MRep(r, s, P, lo, hi) ==
    IF hi = 0 \/ P = {} THEN P
    ELSE IF lo > 0 THEN MRep(r, s, M(r, s, P), lo - 1, hi - 1)
    ELSE P \cup MRep(r, s, M(r, s, P), 0, hi - 1)

MStar(r, s, frontier, acc) ==
    IF frontier = {} THEN acc
    ELSE LET nxt == M(r, s, frontier) \ acc
         IN  MStar(r, s, nxt, acc \cup nxt)

\* RegExp.prototype.test
Test(re, s) == M(re, s, 0..Len(s)) # {}

\* RegExp.prototype.test of a pattern with the i flag: the pattern is written
\* in lower case and matched against the lower-cased text.
TestI(re, s) == Test(re, ToLower(s))

-----------------------------------------------------------------------------
(* JSON.parse and JSON.stringify *)

\* A parsed JSON value is a tuple: <<"lit", "true">>, <<"num", text>> (the
\* number as Number::toString prints it), <<"str", units>>, <<"arr", values>>,
\* <<"obj", members>> with members a sequence of <<key units, value>> in
\* property order.  A string is held as the sequence of its decoded units:
\* the character itself, or "\uxxxx" for a code unit a TLA+ string cannot
\* hold as one character.

RECURSIVE StrToNat(_)
StrToNat(ds) ==
    IF ds = "" THEN 0
    ELSE 10 * StrToNat(slice(ds, 1, Len(ds) - 1))
         + ((CHOOSE k \in 1..10 : charAt("0123456789", k) = charAt(ds, Len(ds))) - 1)

RECURSIVE NatToStr(_)
NatToStr(n) ==
    IF n < 10 THEN charAt("0123456789", n + 1)
    ELSE NatToStr(n \div 10) \o charAt("0123456789", (n % 10) + 1)

RECURSIVE Zeros(_)
Zeros(n) == IF n <= 0 THEN "" ELSE "0" \o Zeros(n - 1)

\* The unit that \uXXXX denotes.  PrintableLow and PrintableHigh are the
\* characters of codes 32..95 and 97..126 (a TLA+ string cannot hold a
\* backquote, code 96).
CodeUnit(hex) ==
    LET RECURSIVE HexToNat(_)
        HexToNat(hs) ==
            IF hs = "" THEN 0
            ELSE 16 * HexToNat(slice(hs, 1, Len(hs) - 1))
                 + ((CHOOSE k \in 1..16 :
                        charAt("0123456789abcdef", k) = ToLower(charAt(hs, Len(hs)))) - 1)
        PrintableLow == " !\"#$%&'()*+,-./0123456789:;<=>?@ABCDEFGHIJKLMNOPQRSTUVWXYZ[\\]^_"
        PrintableHigh == "abcdefghijklmnopqrstuvwxyz{|}~"
        code == HexToNat(hex)
    IN  IF code >= 32 /\ code <= 95 THEN charAt(PrintableLow, code - 31)
        ELSE IF code >= 97 /\ code <= 126 THEN charAt(PrintableHigh, code - 96)
        ELSE IF code = 9 THEN "\t"
        ELSE IF code = 10 THEN "\n"
        ELSE IF code = 12 THEN "\f"
        ELSE IF code = 13 THEN "\r"
        ELSE "\\u" \o ToLower(hex)

RECURSIVE StrBody(_, _, _)
\* The string literal whose opening quote is before index p.  A string
\* literal may hold unescaped anything but the quote, the backslash and the
\* control characters.
StrBody(s, p, units) ==
    LET SimpleEscapes == {"\"", "\\", "/", "b", "f", "n", "r", "t"}
        HexDigits == SetOf("0123456789abcdefABCDEF")
        JsonControl == {"\t", "\n", "\r", "\f"}
        \* The unit that the escape \e denotes.
        Unescape(e) ==
            CASE e = "\"" -> "\""
              [] e = "\\" -> "\\"
              [] e = "/" -> "/"
              [] e = "b" -> "\\u0008"
              [] e = "f" -> "\f"
              [] e = "n" -> "\n"
              [] e = "r" -> "\r"
              [] e = "t" -> "\t"
        NoString == [ok |-> FALSE, pos |-> 0, units |-> <<>>]
        c == charAt(s, p)
    IN  IF p > Len(s) THEN NoString
        ELSE IF c = "\"" THEN [ok |-> TRUE, pos |-> p + 1, units |-> units]
        ELSE IF c = "\\"
        THEN IF p + 1 <= Len(s) /\ charAt(s, p + 1) \in SimpleEscapes
             THEN StrBody(s, p + 2, Append(units, Unescape(charAt(s, p + 1))))
             ELSE IF /\ p + 5 <= Len(s)
                     /\ charAt(s, p + 1) = "u"
                     /\ \A k \in 2..5 : charAt(s, p + k) \in HexDigits
             THEN StrBody(s, p + 6, Append(units, CodeUnit(slice(s, p + 2, p + 5))))
             ELSE NoString
        ELSE IF c \in JsonControl THEN NoString
        ELSE StrBody(s, p + 1, Append(units, c))

\* The index after the JSON number that starts at index start of the text;
\* 0 when none does.
NumberEnd(text, start) ==
    LET RECURSIVE DigitsEnd(_)
        \* The index after the run of digits that starts at index p.
        DigitsEnd(p) ==
            IF p <= Len(text) /\ charAt(text, p) \in Digits THEN DigitsEnd(p + 1) ELSE p
        \* The index after the integer part that starts at index p.
        IntEnd(p) ==
            IF charAt(text, p) = "0" THEN p + 1
            ELSE IF charAt(text, p) \in Digits THEN DigitsEnd(p)
            ELSE 0
        \* The index after the optional fraction that starts at index p.
        FracEnd(p) ==
            IF p = 0 THEN 0
            ELSE IF charAt(text, p) # "." THEN p
            ELSE IF DigitsEnd(p + 1) > p + 1 THEN DigitsEnd(p + 1)
            ELSE 0
        \* The index after the digits of an exponent, which start at index p.
        ExpDigitsEnd(p) == IF DigitsEnd(p) > p THEN DigitsEnd(p) ELSE 0
        \* The index after the optional exponent that starts at index p.
        ExpEnd(p) ==
            IF p = 0 THEN 0
            ELSE IF charAt(text, p) \notin {"e", "E"} THEN p
            ELSE ExpDigitsEnd(IF charAt(text, p + 1) \in {"+", "-"} THEN p + 2 ELSE p + 1)
    IN  ExpEnd(FracEnd(IntEnd(IF charAt(text, start) = "-" THEN start + 1 ELSE start)))

\* Number::toString of the double that the JSON number num denotes.  Exact
\* for numbers of at most 15 significant digits within the normal range of a
\* double.
NumberToString(num) ==
    LET RECURSIVE StripLeadingZeros(_), StripTrailingZeros(_)
        StripLeadingZeros(ds) ==
            IF ds # "" /\ charAt(ds, 1) = "0"
            THEN StripLeadingZeros(slice(ds, 2, Len(ds)))
            ELSE ds
        StripTrailingZeros(ds) ==
            IF ds # "" /\ charAt(ds, Len(ds)) = "0"
            THEN StripTrailingZeros(slice(ds, 1, Len(ds) - 1))
            ELSE ds
        \* The index of the first character of s that is in set; 0 when none is.
        IndexOfAny(s, set) ==
            IF \E i \in 1..Len(s) : charAt(s, i) \in set
            THEN SetMin({i \in 1..Len(s) : charAt(s, i) \in set})
            ELSE 0
        \* The value of the digits of an exponent, leading zeros stripped.  An
        \* exponent of five digits or more is far outside the range of a
        \* double, as 10000 is.
        ExponentDigits(ds) == IF Len(ds) > 4 THEN 10000 ELSE StrToNat(ds)
        \* The value of the exponent text: "" or digits after an optional sign.
        ExponentValue(expo) ==
            IF expo = "" THEN 0
            ELSE IF charAt(expo, 1) = "-"
            THEN 0 - ExponentDigits(StripLeadingZeros(slice(expo, 2, Len(expo))))
            ELSE IF charAt(expo, 1) = "+"
            THEN ExponentDigits(StripLeadingZeros(slice(expo, 2, Len(expo))))
            ELSE ExponentDigits(StripLeadingZeros(expo))
        \* Number::toString of 0.D * 10^n, D the significant digits (no zero
        \* at either end): decimal notation when 1e-7 <= value < 1e21,
        \* exponential notation otherwise.  A magnitude beyond the range of a
        \* double is Infinity, which JSON.stringify prints as null, or 0.
        PrintDecimal(sign, D, n) ==
            IF D = "" \/ n < 0 - 323 THEN "0"
            ELSE IF n > 309 THEN "null"
            ELSE IF Len(D) <= n /\ n <= 21 THEN sign \o D \o Zeros(n - Len(D))
            ELSE IF 0 < n /\ n <= 21
            THEN sign \o slice(D, 1, n) \o "." \o slice(D, n + 1, Len(D))
            ELSE IF 0 - 6 < n /\ n <= 0 THEN sign \o "0." \o Zeros(0 - n) \o D
            ELSE sign \o slice(D, 1, 1)
                      \o (IF Len(D) > 1 THEN "." \o slice(D, 2, Len(D)) ELSE "")
                      \o "e" \o (IF n - 1 >= 0 THEN "+" \o NatToStr(n - 1)
                                               ELSE "-" \o NatToStr(1 - n))
        \* digits: the digits of the mantissa without leading zeros, of which
        \* the last fracLen are after the point; eval: the exponent.
        ScaleDecimal(sign, digits, fracLen, eval) ==
            PrintDecimal(sign, StripTrailingZeros(digits), Len(digits) + eval - fracLen)
        \* mant: the mantissa, dot: the index of its point, or 0.
        SplitMantissa(sign, mant, dot, eval) ==
            ScaleDecimal(sign,
                         StripLeadingZeros(IF dot = 0 THEN mant
                                           ELSE slice(mant, 1, dot - 1)
                                                \o slice(mant, dot + 1, Len(mant))),
                         IF dot = 0 THEN 0 ELSE Len(mant) - dot,
                         eval)
        \* body: the number without its sign, e: the index of its e or E, or 0.
        SplitExponent(sign, body, e) ==
            SplitMantissa(sign,
                          IF e = 0 THEN body ELSE slice(body, 1, e - 1),
                          IndexOfAny(IF e = 0 THEN body ELSE slice(body, 1, e - 1), {"."}),
                          IF e = 0 THEN 0 ELSE ExponentValue(slice(body, e + 1, Len(body))))
    IN  SplitExponent(IF charAt(num, 1) = "-" THEN "-" ELSE "",
                      IF charAt(num, 1) = "-" THEN slice(num, 2, Len(num)) ELSE num,
                      IndexOfAny(num, {"e", "E"}) - (IF charAt(num, 1) = "-" THEN 1 ELSE 0))

\* CreateDataProperty of JSON.parse: a repeated key keeps its place and takes
\* the later value.
AddMember(members, key, value) ==
    IF \E i \in 1..Len(members) : members[i][1] = key
    THEN LET i == CHOOSE j \in 1..Len(members) : members[j][1] = key
         IN  [members EXCEPT ![i] = <<key, value>>]
    ELSE Append(members, <<key, value>>)

\* OrdinaryOwnPropertyKeys: array indices ascending, then the other keys in
\* the order of their creation.  A key is an array index when it is a
\* canonical numeric string below 2^32 - 1.
PropertyOrder(created) ==
    LET RECURSIVE SortByRank(_, _), cat(_)
        cat(us) == IF us = <<>> THEN "" ELSE Head(us) \o cat(Tail(us))
        \* The value of the key, as two numbers of five digits.
        IndexRank(units) ==
            <<StrToNat(slice(Zeros(10 - Len(units)) \o cat(units), 1, 5)),
              StrToNat(slice(Zeros(10 - Len(units)) \o cat(units), 6, 10))>>
        RankLeq(a, b) == a[1] < b[1] \/ (a[1] = b[1] /\ a[2] <= b[2])
        IsArrayIndex(units) ==
            /\ Len(units) >= 1
            /\ Len(units) <= 10
            /\ \A i \in 1..Len(units) : units[i] \in Digits
            /\ (units[1] = "0" => Len(units) = 1)
            /\ RankLeq(IndexRank(units), <<42949, 67294>>)
        SortByRank(members, left) ==
            IF left = {} THEN <<>>
            ELSE LET i == CHOOSE j \in left : \A k \in left :
                              RankLeq(IndexRank(members[j][1]), IndexRank(members[k][1]))
                 IN  <<members[i]>> \o SortByRank(members, left \ {i})
    IN  SortByRank(created, {i \in 1..Len(created) : IsArrayIndex(created[i][1])})
        \o SelectSeq(created, LAMBDA m : ~IsArrayIndex(m[1]))

\* JSON.parse(json): ok is FALSE when it throws a SyntaxError, and out is the
\* value otherwise.
JSONparse(json) ==
    LET RECURSIVE SkipWs(_), ParseValue(_), ParseElements(_, _), ParseMembers(_, _)
        Failed == [ok |-> FALSE, pos |-> 0, out |-> ""]
        Parsed(pos, out) == [ok |-> TRUE, pos |-> pos, out |-> out]
        \* The index after the white space of JSON that starts at index p.
        SkipWs(p) ==
            IF p <= Len(json) /\ charAt(json, p) \in {" ", "\t", "\n", "\r"}
            THEN SkipWs(p + 1)
            ELSE p
        \* The string literal at index q as a value.
        StringValue(str) ==
            IF str.ok THEN Parsed(str.pos, <<"str", str.units>>) ELSE Failed
        \* The number from index q to before index e as a value; none when e is 0.
        NumberValue(q, e) ==
            IF e = 0 THEN Failed
            ELSE Parsed(e, <<"num", NumberToString(slice(json, q, e - 1))>>)
        \* The object whose brace is before index r, after white space.
        ObjectValue(r) ==
            IF charAt(json, r) = "}" THEN Parsed(r + 1, <<"obj", <<>>>>)
            ELSE ParseMembers(r, <<>>)
        \* The array whose bracket is before index r, after white space.
        ArrayValue(r) ==
            IF charAt(json, r) = "]" THEN Parsed(r + 1, <<"arr", <<>>>>)
            ELSE ParseElements(r, <<>>)
        \* The JSON value whose text starts at index q.
        ValueAt(q) ==
            IF charAt(json, q) = "{" THEN ObjectValue(SkipWs(q + 1))
            ELSE IF charAt(json, q) = "[" THEN ArrayValue(SkipWs(q + 1))
            ELSE IF charAt(json, q) = "\"" THEN StringValue(StrBody(json, q + 1, <<>>))
            ELSE IF charAt(json, q) = "-" \/ charAt(json, q) \in Digits
            THEN NumberValue(q, NumberEnd(json, q))
            ELSE IF slice(json, q, q + 3) = "true" THEN Parsed(q + 4, <<"lit", "true">>)
            ELSE IF slice(json, q, q + 4) = "false" THEN Parsed(q + 5, <<"lit", "false">>)
            ELSE IF slice(json, q, q + 3) = "null" THEN Parsed(q + 4, <<"lit", "null">>)
            ELSE Failed
        \* The JSON value whose text starts at index p, after white space.
        ParseValue(p) == ValueAt(SkipWs(p))
        \* After an element: a comma and the next element, or the bracket.
        ElementsNext(q, values) ==
            IF charAt(json, q) = "," THEN ParseElements(q + 1, values)
            ELSE IF charAt(json, q) = "]" THEN Parsed(q + 1, <<"arr", values>>)
            ELSE Failed
        ElementValue(v, values) ==
            IF ~v.ok THEN Failed
            ELSE ElementsNext(SkipWs(v.pos), Append(values, v.out))
        \* The rest of an array, from the element at index p on.
        ParseElements(p, values) == ElementValue(ParseValue(p), values)
        \* After a member: a comma and the next member, or the brace.
        MembersNext(q, members) ==
            IF charAt(json, q) = "," THEN ParseMembers(q + 1, members)
            ELSE IF charAt(json, q) = "}"
            THEN Parsed(q + 1, <<"obj", PropertyOrder(members)>>)
            ELSE Failed
        MemberValue(keyUnits, v, members) ==
            IF ~v.ok THEN Failed
            ELSE MembersNext(SkipWs(v.pos), AddMember(members, keyUnits, v.out))
        \* After the key of a member: the colon, at index r, and the value.
        MemberColon(key, r, members) ==
            IF key.ok /\ charAt(json, r) = ":"
            THEN MemberValue(key.units, ParseValue(r + 1), members)
            ELSE Failed
        MemberKey(key, members) ==
            MemberColon(key, IF key.ok THEN SkipWs(key.pos) ELSE 0, members)
        \* A member starts with a string literal, at index q.
        MemberAt(q, members) ==
            IF charAt(json, q) = "\"" THEN MemberKey(StrBody(json, q + 1, <<>>), members)
            ELSE Failed
        \* The rest of an object, from the member at index p on.
        ParseMembers(p, members) == MemberAt(SkipWs(p), members)
        \* The whole text is one value, with white space around it.
        WholeText(v) ==
            IF v.ok /\ SkipWs(v.pos) = Len(json) + 1
            THEN [ok |-> TRUE, out |-> v.out]
            ELSE [ok |-> FALSE, out |-> <<>>]
    IN  WholeText(ParseValue(1))

\* JSON.stringify(parsed) with no indentation.
JSONstringify(parsed) ==
    LET RECURSIVE QuoteUnits(_), Stringify(_), JoinValues(_), JoinMembers(_)
        \* QuoteJSONString of one unit.
        QuoteUnit(u) ==
            CASE u = "\"" -> "\\\""
              [] u = "\\" -> "\\\\"
              [] u = "\n" -> "\\n"
              [] u = "\t" -> "\\t"
              [] u = "\r" -> "\\r"
              [] u = "\f" -> "\\f"
              [] u = "\\u0008" -> "\\b"
              [] OTHER -> u
        QuoteUnits(units) ==
            IF units = <<>> THEN "" ELSE QuoteUnit(Head(units)) \o QuoteUnits(Tail(units))
        Quote(units) == "\"" \o QuoteUnits(units) \o "\""
        Stringify(value) ==
            CASE value[1] = "lit" -> value[2]
              [] value[1] = "num" -> value[2]
              [] value[1] = "str" -> Quote(value[2])
              [] value[1] = "arr" -> "[" \o JoinValues(value[2]) \o "]"
              [] value[1] = "obj" -> "{" \o JoinMembers(value[2]) \o "}"
        JoinValues(values) ==
            IF values = <<>> THEN ""
            ELSE Stringify(Head(values))
                 \o (IF Len(values) > 1 THEN "," ELSE "") \o JoinValues(Tail(values))
        JoinMembers(members) ==
            IF members = <<>> THEN ""
            ELSE Quote(Head(members)[1]) \o ":" \o Stringify(Head(members)[2])
                 \o (IF Len(members) > 1 THEN "," ELSE "") \o JoinMembers(Tail(members))
    IN  Stringify(parsed)

-----------------------------------------------------------------------------
(* detectLanguage (utils/formatter) *)

\* /^<\?xml\s/i
xmlDeclaration == SeqOf(<<Bol, Lit("<?xml"), Ws>>)

\* /^<!doctype\s+html/i
doctypeHtml == SeqOf(<<Bol, Lit("<!doctype"), Plus(Ws), Lit("html")>>)

\* /<\s*\/?\s*(html|head|...|h[1-6]|...|article)\b/i
htmlTags ==
    SeqOf(<<Lit("<"), Star(Ws), Opt(Lit("/")), Star(Ws),
            AltOf(<<Words({"html", "head", "body", "div", "span", "p", "a", "ul",
                           "ol", "li", "table", "tr", "td", "br", "img", "form",
                           "input", "button", "script", "style", "meta", "link",
                           "header", "footer", "nav", "section", "article"}),
                    SeqOf(<<Lit("h"), Chr({"1", "2", "3", "4", "5", "6"})>>)>>),
            Wb>>)

\* /^\s*(SELECT|INSERT|...|WITH)\b/i
sqlStartPattern ==
    SeqOf(<<Bol, Star(Ws),
            Words({"select", "insert", "update", "delete", "create", "alter",
                   "drop", "truncate", "grant", "revoke", "begin", "declare",
                   "with"}),
            Wb>>)

\* /\b(FROM|WHERE|GROUP BY|...|FOREIGN KEY)\b/i
sqlClausePattern ==
    SeqOf(<<Wb,
            Words({"from", "where", "group by", "order by", "inner join",
                   "left join", "right join", "values", "set", "primary key",
                   "foreign key"}),
            Wb>>)

\* /\b(const|var|let|function|return|import|export|class)\b/
isJsPattern ==
    SeqOf(<<Wb,
            Words({"const", "var", "let", "function", "return", "import",
                   "export", "class"}),
            Wb>>)

\* /[^{}]+{\s*([a-zA-Z0-9-]+\s*:\s*[^;]+;\s*)+}/
cssRuleBlock ==
    SeqOf(<<Plus(NotChr({"{", "}"})), Lit("{"), Star(Ws),
            Plus(SeqOf(<<Plus(Chr(Lowers \cup Uppers \cup Digits \cup {"-"})),
                         Star(Ws), Lit(":"), Star(Ws), Plus(NotChr({";"})),
                         Lit(";"), Star(Ws)>>)),
            Lit("}")>>)

\* /^[^{}]+{\s*[\s\S]+\s*}$/m
cssLooseBlock ==
    SeqOf(<<BolM, Plus(NotChr({"{", "}"})), Lit("{"), Star(Ws), Plus(AnyChar),
            Star(Ws), Lit("}"), EolM>>)

\* /\b(function|class|if|for|while|const|var|let|return|import|export|=>)\b/
isJsLikePattern ==
    SeqOf(<<Wb,
            Words({"function", "class", "if", "for", "while", "const", "var",
                   "let", "return", "import", "export", "=>"}),
            Wb>>)

\* /"\s*:\s*"/m
quotedColon == SeqOf(<<Lit("\""), Star(Ws), Lit(":"), Star(Ws), Lit("\"")>>)

\* /(^#{1,6}\s)|(^\s*[-*+]\s)|(^>\s)|(\[.*\]\(.*\))/m
mdPattern ==
    AltOf(<<SeqOf(<<BolM, Rep(Lit("#"), 1, 6), Ws>>),
            SeqOf(<<BolM, Star(Ws), Chr({"-", "*", "+"}), Ws>>),
            SeqOf(<<BolM, Lit(">"), Ws>>),
            SeqOf(<<Lit("["), Star(Dot), Lit("]"), Lit("("), Star(Dot), Lit(")")>>)>>)

\* /\b(interface|type|enum|...|public|as)\b/
tsKeywords ==
    SeqOf(<<Wb,
            Words({"interface", "type", "enum", "namespace", "implements",
                   "abstract", "readonly", "private", "protected", "public",
                   "as"}),
            Wb>>)

\* /:\s*(string|number|boolean|any|void|never|object|unknown)\b/
tsTypeAnnotation ==
    SeqOf(<<Lit(":"), Star(Ws),
            Words({"string", "number", "boolean", "any", "void", "never",
                   "object", "unknown"}),
            Wb>>)

\* /<[A-Z][a-zA-Z0-9]*>/
tsGenerics ==
    SeqOf(<<Lit("<"), Chr(Uppers), Star(Chr(Lowers \cup Uppers \cup Digits)),
            Lit(">")>>)

\* What a step of the cascade yields when it does not return.
FallThrough == "fall-through"
\* What a call yields when an exception leaves it.
Thrown == "thrown"

\* The start/end test of the JSON step.
\* A variant that tests for the braces of an object only.
hasBraceDelimiters(trimmed) ==
    startsWith(trimmed, "{") /\ endsWith(trimmed, "}")

hasJsonDelimiters(trimmed) ==
    \/ startsWith(trimmed, "{") /\ endsWith(trimmed, "}")
    \/ startsWith(trimmed, "[") /\ endsWith(trimmed, "]")

\* A variant without the catch block: the SyntaxError leaves the function.
jsonStepUncaught(trimmed) ==
    IF hasJsonDelimiters(trimmed)
    THEN IF JSONparse(trimmed).ok THEN JSON ELSE Thrown
    ELSE FallThrough

\* A variant that trusts the delimiters and does not parse.
jsonStepUnparsed(trimmed) ==
    IF hasJsonDelimiters(trimmed) THEN JSON ELSE FallThrough

\* 1. JSON: the try block returns JSON, the catch block falls through.
jsonStep(trimmed) ==
    IF hasJsonDelimiters(trimmed)
    THEN IF JSONparse(trimmed).ok THEN JSON ELSE FallThrough
    ELSE FallThrough

\* A variant whose last sub-test falls through instead of returning XML.
markupStepNonTerminal(trimmed) ==
    IF startsWith(trimmed, "<")
    THEN IF TestI(xmlDeclaration, trimmed) THEN XML
         ELSE IF TestI(doctypeHtml, trimmed) THEN HTML
         ELSE IF TestI(htmlTags, trimmed) THEN HTML
         ELSE FallThrough
    ELSE FallThrough

\* A variant that looks for the HTML tag names before the XML declaration.
markupStepTagsFirst(trimmed) ==
    IF startsWith(trimmed, "<")
    THEN IF TestI(htmlTags, trimmed) THEN HTML
         ELSE IF TestI(xmlDeclaration, trimmed) THEN XML
         ELSE IF TestI(doctypeHtml, trimmed) THEN HTML
         ELSE XML
    ELSE FallThrough

\* 2. HTML / XML
markupStep(trimmed) ==
    IF startsWith(trimmed, "<")
    THEN IF TestI(xmlDeclaration, trimmed) THEN XML
         ELSE IF TestI(doctypeHtml, trimmed) THEN HTML
         ELSE IF TestI(htmlTags, trimmed) THEN HTML
         ELSE XML
    ELSE FallThrough

\* A variant without the test for the JS keywords.
sqlStepUnguarded(trimmed) ==
    IF TestI(sqlStartPattern, trimmed) \/ TestI(sqlClausePattern, trimmed)
    THEN SQL
    ELSE FallThrough

\* 3. SQL
sqlStep(trimmed) ==
    IF TestI(sqlStartPattern, trimmed) \/ TestI(sqlClausePattern, trimmed)
    THEN LET isJs == Test(isJsPattern, trimmed)
         IN  IF ~isJs THEN SQL ELSE FallThrough
    ELSE FallThrough

\* 4. CSS
cssStep(trimmed) ==
    LET hasCssBlock == Test(cssRuleBlock, trimmed) \/ Test(cssLooseBlock, trimmed)
        isJsLike == Test(isJsLikePattern, trimmed)
    IN  IF hasCssBlock /\ ~isJsLike
        THEN IF ~Test(quotedColon, trimmed) THEN CSS ELSE FallThrough
        ELSE FallThrough

\* 5. Markdown
markdownStep(trimmed) ==
    IF Test(mdPattern, trimmed) THEN MARKDOWN ELSE FallThrough

\* 6. TypeScript / JavaScript
typescriptStep(trimmed) ==
    IF \/ Test(tsKeywords, trimmed)
       \/ Test(tsTypeAnnotation, trimmed)
       \/ Test(tsGenerics, trimmed)
    THEN TYPESCRIPT
    ELSE FallThrough

\* What a step yields, or else what the rest of the function yields.
orElse(step, rest) == IF step # FallThrough THEN step ELSE rest

\* A variant with the SQL test moved before the JSON test.
cascadeSqlFirst(trimmed) ==
    orElse(sqlStep(trimmed),
    orElse(jsonStep(trimmed),
    orElse(markupStep(trimmed),
    orElse(cssStep(trimmed),
    orElse(markdownStep(trimmed),
    orElse(typescriptStep(trimmed),
           JAVASCRIPT))))))

\* The steps after the empty-text test, in the order of the source: the first
\* one that returns ends the call.
cascade(trimmed) ==
    orElse(jsonStep(trimmed),
    orElse(markupStep(trimmed),
    orElse(sqlStep(trimmed),
    orElse(cssStep(trimmed),
    orElse(markdownStep(trimmed),
    orElse(typescriptStep(trimmed),
           JAVASCRIPT))))))

\* A variant without the empty-text test.
emptyStepSkipped(trimmed) == FallThrough

\* if (!trimmed) return Language.JSON
emptyStep(trimmed) == IF trimmed = "" THEN JSON ELSE FallThrough

detectTrimmed(trimmed) == orElse(emptyStep(trimmed), cascade(trimmed))

\* A variant whose patterns are module-level objects with the g flag: a test
\* that matched leaves its lastIndex behind, the tests of the next call start
\* there and fail, and that call falls to the default.
detectLanguageSticky(text) ==
    IF /\ history # <<>>
       /\ history[Len(history)].fn = "detectLanguage"
       /\ history[Len(history)].outcome # JAVASCRIPT
    THEN JAVASCRIPT
    ELSE detectTrimmed(trim(text))

detectLanguage(text) == detectTrimmed(trim(text))

-----------------------------------------------------------------------------
(* String.prototype.replace with a global pattern *)

\* />\s+</g
tagGap == SeqOf(<<Lit(">"), Plus(Ws), Lit("<")>>)

\* /\s{2,}/g
spaceRun2 == SeqOf(<<Ws, Ws, Star(Ws)>>)

\* /\s+/g
spaceRun == Plus(Ws)

\* /\/\*[\s\S]*?\*\//g, and the first alternative of the JS pattern
blockComment == SeqOf(<<Lit("/*"), Star(AnyChar), Lit("*/")>>)

\* /\s*([:;{}])\s*/g
cssPunctuation == SeqOf(<<Star(Ws), Chr({":", ";", "{", "}"}), Star(Ws)>>)

\* A variant of the second alternative whose group takes any character.
lineCommentAfterAnyChar == SeqOf(<<AnyChar, Lit("//"), Star(Dot), EolM>>)

\* ([^\\:]|^)\/\/.*$ under /m, the second alternative of the JS pattern: the
\* group takes a character when it can, and is empty at the start of a line.
lineCommentAfterChar == SeqOf(<<NotChr({"\\", ":"}), Lit("//"), Star(Dot), EolM>>)
lineCommentAtLineStart == SeqOf(<<BolM, Lit("//"), Star(Dot), EolM>>)

\* The match of a pattern of minifyCode that starts at offset p of s: the
\* offset where it ends (below 0 when there is none) and the text that
\* replaces it.  A greedy pattern without alternatives matches up to the
\* farthest offset at which a match can end, a lazy one up to the nearest.
MatchAt(pattern, s, p) ==
    LET NoMatch == [end |-> 0 - 1, by |-> ""]
        Match(end, by) == [end |-> end, by |-> by]
        EndOf(ends, longest) ==
            IF ends = {} THEN 0 - 1 ELSE IF longest THEN SetMax(ends) ELSE SetMin(ends)
        LongestEnd(re) == EndOf(M(re, s, {p}), TRUE)
        ShortestEnd(re) == EndOf(M(re, s, {p}), FALSE)
        \* '$1' of cssPunctuation: the first character of the match that is
        \* not white space.
        PunctuationAt(e) ==
            IF e < 0 THEN NoMatch
            ELSE Match(e, charAt(s, SetMin({i \in p + 1..e : charAt(s, i) \notin WhiteSpace})))
        \* /\/\*[\s\S]*?\*\/|([^\\:]|^)\/\/.*$/gm by '$1'
        jsCommentAt(block, afterChar) ==
            IF block >= 0 THEN Match(block, "")
            ELSE IF afterChar >= 0 THEN Match(afterChar, charAt(s, p + 1))
            ELSE Match(LongestEnd(lineCommentAtLineStart), "")
    IN  CASE pattern = "tagGap" -> Match(LongestEnd(tagGap), "><")
          [] pattern = "spaceRun2" -> Match(LongestEnd(spaceRun2), " ")
          [] pattern = "spaceRun" -> Match(LongestEnd(spaceRun), " ")
          [] pattern = "blockComment" -> Match(ShortestEnd(blockComment), "")
          [] pattern = "cssPunctuation" -> PunctuationAt(LongestEnd(cssPunctuation))
          [] pattern = "jsComment" ->
                 jsCommentAt(ShortestEnd(blockComment), LongestEnd(lineCommentAfterChar))

RECURSIVE ReplaceFrom(_, _, _)
\* The text from offset p on, each match replaced, left to right.
ReplaceFrom(s, p, pattern) ==
    IF p >= Len(s) THEN ""
    ELSE LET m == MatchAt(pattern, s, p)
         IN  IF m.end > p THEN m.by \o ReplaceFrom(s, m.end, pattern)
             ELSE charAt(s, p + 1) \o ReplaceFrom(s, p + 1, pattern)

ReplaceAll(s, pattern) == ReplaceFrom(s, 0, pattern)

-----------------------------------------------------------------------------
(* minifyCode (utils/formatter) *)

\* The outcome of a call: the value returned, or an exception thrown.
Returned(value) == [threw |-> FALSE, value |-> value]
Threw == [threw |-> TRUE, value |-> ""]

\* A variant that stringifies its own output once more.
stringifyTwice(parsed) ==
    IF parsed.ok
    THEN Returned(JSONstringify(<<"str", [i \in 1..Len(JSONstringify(parsed.out)) |->
                                              charAt(JSONstringify(parsed.out), i)]>>))
    ELSE Threw

\* JSON.stringify of what JSON.parse returned; its SyntaxError propagates.
stringifyParsed(parsed) ==
    IF parsed.ok THEN Returned(JSONstringify(parsed.out)) ELSE Threw

\* A variant that returns the text as it is when it does not parse.
minifyJsonLenient(code) ==
    IF JSONparse(code).ok THEN stringifyParsed(JSONparse(code)) ELSE Returned(code)

\* case Language.JSON
minifyJson(code) == stringifyParsed(JSONparse(code))

\* A variant without the replacement of the gaps between tags.
minifyMarkupKeepGaps(code) == Returned(trim(ReplaceAll(code, "spaceRun2")))

\* case Language.HTML, Language.XML
minifyMarkup(code) ==
    Returned(trim(ReplaceAll(ReplaceAll(code, "tagGap"), "spaceRun2")))

\* A variant that collapses the white space before it removes the comments.
minifyCssCollapseFirst(code) ==
    Returned(trim(ReplaceAll(ReplaceAll(ReplaceAll(code, "spaceRun"),
                                        "blockComment"),
                             "cssPunctuation")))

\* A variant without the replacement around the punctuation.
minifyCssKeepSpaces(code) ==
    Returned(trim(ReplaceAll(ReplaceAll(code, "blockComment"), "spaceRun")))

\* case Language.CSS
minifyCss(code) ==
    Returned(trim(ReplaceAll(ReplaceAll(ReplaceAll(code, "blockComment"),
                                        "spaceRun"),
                             "cssPunctuation")))

\* case Language.JAVASCRIPT, Language.TYPESCRIPT
minifyScript(code) ==
    Returned(trim(ReplaceAll(ReplaceAll(code, "jsComment"), "spaceRun")))

\* case Language.SQL
minifySql(code) == Returned(trim(ReplaceAll(code, "spaceRun")))

\* default
minifyDefault(code) == Returned(ReplaceAll(code, "spaceRun"))

\* if (!code.trim()) return ''
\* A variant that tests the text as given, not the trimmed text.
isEmpty(code) == code = ""

isBlank(code) == trim(code) = ""

minifyCode(code, tag) ==
    IF isBlank(code) THEN Returned("")
    ELSE CASE tag = JSON -> minifyJson(code)
           [] tag \in {HTML, XML} -> minifyMarkup(code)
           [] tag = CSS -> minifyCss(code)
           [] tag \in {JAVASCRIPT, TYPESCRIPT} -> minifyScript(code)
           [] tag = SQL -> minifySql(code)
           [] OTHER -> minifyDefault(code)

-----------------------------------------------------------------------------
(* The texts of the model *)

\* The examples of the specification's testable properties.
SpecExamples ==
    {"", "   ",
     "{\"q\": \"SELECT * FROM t\"}",
     "<?xml version=\"1.0\"?><root/>",
     "<!DOCTYPE html><html><body>hi</body></html>",
     "<foo><bar/></foo>",
     "interface Foo { x: number }",
     "function foo() { return 1; }",
     "a   b\n\n c",
     "{not valid json",
     "<div>  \n  <span>x</span>  </div>"}

\* More texts, one or more for each step of detectLanguage and each branch
\* of minifyCode.
MoreExamples ==
    {"\n\t ", " {\"a\": [1, 2.50, true], \"1\": null} ", "[1, 2]", "[1, 2,]",
     "{ color: red; }", "[a](b) and [c]", "{\"a\": 1,}", "12", "-0", "true",
     "null", "\"a\"", " 1.5e3 ", "\"SELECT * FROM t\"",
     "\"\\u0041\\/\\n\"", "\"\\u0001\\\\\"", "[1e2, 0.10, -0, 1E+2]", "1e21", "[ ]",
     "{ }", "{\"a\":1,\"a\":2}", "{\"b\": 1, \"1\": 2, \"0\": {}}", "[[\"\\\"\"]]",
     "[1.0e-7, 123456789012345]", "\"\\ud83d\"", "01", "[\"\t\"]",
     "<Foo>", "<x> SELECT a FROM b", "<q>\n# h", "<r>a { b: c; }</r>",
     "< DIV>", "<?XML\tx", "<?xmlx", "<!doctype  HTML>", "<h7>",
     "<?xml version=\"1.0\"?><html/>", "<!DOCTYPE html><?xml ?>", "<!doctypehtml>",
     "<!doctype xhtml><p>", "<a-b></ SPAN>", "<x></ li >", "<Foo></Foo>", "<pre>",
     "SELECT * FROM t", "select a from b where c", "UPDATE t SET a = 1",
     "const q = \"SELECT * FROM t\"", "a from b", "values", "offset 1",
     "my_var FROM t", "SELECT class FROM t", "select Const from t", "insert(return)",
     "$let set x", "DELETE", "x.fromage", "where\nimport",
     "a=>b { c: d; }", "()=>{ a: b; }", "if (a) { b: c; }", "iffy { b: c; }",
     "a { color: red; }", "body {\n  margin: 0;\n}", "x => { color: red; }",
     "if (a) { b: c; }", "a { \"k\": \"v\"; }", "x {y}",
     "# Title", "- item", "> quote", "see [a](b)", "a\n * b", "#Title",
     "let x: string = 1", "type A = B", "new Map<Key>()", "x as y",
     "x = 1", "foo()", "/* c */", "// c", "a // b", "u = \"http://h\"",
     "/* a */ b /* c */", " /* c */\n// d\n", "a{b:c}/**/", "a :  b ;",
     "a /* c */ b", "a /* c */ : b", "x://y // z\n//w", "f:///x", "///d\n y",
     "/* c *///x", "a\\//b", "a //b\r\nc /* d\n */ e", "p { a : b ; }\n\nq{ }",
     "<a> \n <b>  x  y </b>\t</a> ", "> a <", ">\n\n>\t<", " a  >  < b ",
     "//**/* x */", "://**/* x */", "a /**/ /**/ b", "a{b:c/ /**/ 2}"}

\* Pieces of text, put together in every order by Pieces.
Fragments ==
    <<" ", "\n", "{", "}", "[", "]", "<", ">", "\"a\"", ":", ";", "1", "a",
      "{\"a\": 1}", "SELECT", "const", "# ", "div", "x: number", "/* c */",
      "// c">>

\* How many fragments a generated text is made of, at most.
MaxFrags == 2

RECURSIVE Pieces(_)
\* The texts made of at most n fragments.
Pieces(n) ==
    IF n = 0 THEN {""}
    ELSE LET shorter == Pieces(n - 1)
         IN  shorter \cup {t \o Fragments[i] : t \in shorter, i \in DOMAIN Fragments}

\* The texts detectLanguage is called with.
DetectTexts == SpecExamples \cup MoreExamples \cup Pieces(MaxFrags)


\* How many fragments a text handed to minifyCode is made of, at most.
MaxMinifyFrags == 1

\* Pieces of the texts handed to minifyCode: white space, the characters the
\* patterns of minifyCode name, and comments.
MinifyFragments ==
    <<" ", "\n", "\t", ">", "<", ":", ";", "{", "}", "/", "//", "/*", "*/",
      "\\", "a", "b ", " c", ":// x", "/* d */", "\r\n">>

\* How many of these pieces a text handed to minifyCode is made of, at most.
MaxMinifyPieces == 2

RECURSIVE MinifyPieces(_)
\* The texts made of at most n pieces.
MinifyPieces(n) ==
    IF n = 0 THEN {""}
    ELSE LET shorter == MinifyPieces(n - 1)
         IN  shorter \cup {t \o MinifyFragments[i] : t \in shorter, i \in DOMAIN MinifyFragments}

\* The texts minifyCode is called with.
MinifyTexts ==
    SpecExamples \cup MoreExamples \cup Pieces(MaxMinifyFrags)
        \cup MinifyPieces(MaxMinifyPieces)

\* The texts the user uploads or types into the editors of App.
AppTexts == {"{not valid json", "/* c */", " [1, 2] "}

\* The names of the uploaded files.
FileNames == {"a.txt"}

\* The texts the user types or pastes into the input editor: the texts above,
\* the empty text, and a text that is 10 characters longer than one of them
\* and 11 characters longer than another.
EditTexts == AppTexts \cup {"", "a { color: red ; }"}

-----------------------------------------------------------------------------
(* A single call of detectLanguage, and a single call of minifyCode *)

Null == "null"

\* The content { text: value } of the JSONEditor.
TextContent(value) == [text |-> value, json |-> <<"absent">>, errors |-> FALSE]

InitApp ==
    /\ inputCode = ""
    /\ outputCode = ""
    /\ language = JSON
    /\ error = Null
    /\ notification = Null
    /\ timers = 0
    /\ handler = "none"
    /\ autoUpdate = TRUE
    /\ viewMode = "formatter"
    /\ debounce = <<>>
    /\ notices = <<>>
    /\ sinceChange = 0
    /\ shownFor = 0
    /\ models = Null
    /\ captured = Null
    /\ editorContent = TextContent("")
    /\ lastEmittedValue = ""

InitDetect ==
    /\ InitApp
    /\ pc = "start"
    /\ content \in DetectTexts
    /\ lang = "none"
    /\ result = "none"
    /\ history = <<>>

CallDetect ==
    /\ pc = "start"
    /\ result' = detectLanguage(content)
    /\ pc' = "done"
    /\ UNCHANGED <<content, lang, history>>
    /\ UNCHANGED appVars

NextDetect == CallDetect

SpecDetect == InitDetect /\ [][NextDetect]_vars

InitMinify ==
    /\ InitApp
    /\ pc = "start"
    /\ content \in MinifyTexts
    /\ lang \in Language
    /\ result = "none"
    /\ history = <<>>

CallMinify ==
    /\ pc = "start"
    /\ result' = minifyCode(content, lang)
    /\ pc' = "done"
    /\ UNCHANGED <<content, lang, history>>
    /\ UNCHANGED appVars

NextMinify == CallMinify

SpecMinify == InitMinify /\ [][NextMinify]_vars

-----------------------------------------------------------------------------
(* App: the handlers of the component *)

\* How many timers of showNotification are pending, at most.
MaxTimers == 1

\* e.message of the SyntaxError of JSON.parse, which the engine words.
SyntaxErrorMessage == "SyntaxError: JSON.parse"

EmptyResultMessage == "Minification produced empty result"

\* The outcome of the try block: the value to show, or the exception caught.
Shown(value) == [threw |-> FALSE, value |-> value, message |-> ""]
Caught(message) == [threw |-> TRUE, value |-> "", message |-> message]

\* e.message || fallback
messageOr(message, fallback) == IF message = "" THEN fallback ELSE message

\* setNotification(msg); setTimeout(() => setNotification(null), 3000)
showNotification(msg) ==
    /\ timers < MaxTimers
    /\ notification' = msg
    /\ timers' = timers + 1

\* The callback of the timer of showNotification.
NotificationTimeout ==
    /\ pc = "app"
    /\ timers > 0
    /\ notification' = Null
    /\ timers' = timers - 1
    /\ handler' = "notificationTimeout"
    /\ UNCHANGED <<inputCode, outputCode, language, error>>
    /\ UNCHANGED callVars
    /\ UNCHANGED <<timedVars, viewVars>>

\* A variant of the try block without the safety check.
emptyResultUnchecked(minified, code) ==
    IF minified.threw THEN Caught(SyntaxErrorMessage) ELSE Shown(minified.value)

\* const minified = minifyCode(inputCode, language) and the safety check:
\* if (!minified && inputCode.trim().length > 0) throw new Error(...)
emptyResultCheck(minified, code) ==
    IF minified.threw THEN Caught(SyntaxErrorMessage)
    ELSE IF minified.value = "" /\ Len(trim(code)) > 0 THEN Caught(EmptyResultMessage)
    ELSE Shown(minified.value)

\* A variant of the rest of the try block that writes the output pane for
\* every language.
MinifySucceededToOutput(outcome) ==
    /\ error' = Null
    /\ outputCode' = outcome.value
    /\ UNCHANGED inputCode
    /\ showNotification("Code minified successfully!")

\* The rest of the try block: the pane of the language takes the result.
MinifySucceeded(outcome) ==
    /\ error' = Null
    /\ IF language = JSON
       THEN inputCode' = outcome.value /\ UNCHANGED outputCode
       ELSE outputCode' = outcome.value /\ UNCHANGED inputCode
    /\ showNotification("Code minified successfully!")

\* A variant of the catch block that shows the input as the result.
MinifyFailedFallback(outcome) ==
    /\ error' = messageOr(outcome.message, "Minification failed")
    /\ outputCode' = inputCode
    /\ UNCHANGED <<inputCode, notification, timers>>

\* The catch block: setError(e.message || 'Minification failed')
MinifyFailed(outcome) ==
    /\ error' = messageOr(outcome.message, "Minification failed")
    /\ UNCHANGED <<inputCode, outputCode, notification, timers>>

MinifyRequest(outcome) ==
    IF outcome.threw THEN MinifyFailed(outcome) ELSE MinifySucceeded(outcome)

HandleMinify ==
    /\ pc = "app"
    /\ MinifyRequest(emptyResultCheck(minifyCode(inputCode, language), inputCode))
    /\ handler' = "handleMinify"
    /\ UNCHANGED language
    /\ UNCHANGED callVars
    /\ UNCHANGED <<timedVars, viewVars>>

LanguageDetected(detected) ==
    /\ language' = detected
    /\ showNotification("Auto-detected: " \o ToUpper(detected))

HandleLanguageChange(val) ==
    /\ pc = "app"
    /\ IF val = "auto"
       THEN LanguageDetected(detectLanguage(inputCode))
       ELSE language' = val /\ UNCHANGED <<notification, timers>>
    /\ handler' = "handleLanguageChange"
    /\ UNCHANGED <<inputCode, outputCode, error>>
    /\ UNCHANGED callVars
    /\ UNCHANGED <<timedVars, viewVars>>

InputUploaded(text, fileName, detected) ==
    /\ inputCode' = text
    /\ language' = detected
    /\ showNotification("Loaded " \o fileName \o " (" \o detected \o ")")

HandleInputUpload(text, fileName) ==
    /\ pc = "app"
    /\ InputUploaded(text, fileName, detectLanguage(text))
    /\ handler' = "handleInputUpload"
    /\ UNCHANGED <<outputCode, error>>
    /\ UNCHANGED callVars
    /\ UNCHANGED <<timedVars, viewVars>>

HandleOutputUpload(text, fileName) ==
    /\ pc = "app"
    /\ outputCode' = text
    /\ showNotification("Loaded " \o fileName \o " as Modified")
    /\ handler' = "handleOutputUpload"
    /\ UNCHANGED <<inputCode, language, error>>
    /\ UNCHANGED callVars
    /\ UNCHANGED <<timedVars, viewVars>>

\* The growth of the text, in characters, above which an edit is a paste;
\* also the length above which a text is detected.
PasteThreshold == 10

\* A variant that takes a growth of exactly the threshold for a paste.
isPasteAtThreshold(val) == Len(val) - Len(inputCode) >= PasteThreshold

\* const isPaste = val.length - inputCode.length > 10
isPaste(val) == Len(val) - Len(inputCode) > PasteThreshold

HandleInputChange(val) ==
    /\ pc = "app"
    /\ language' = IF (Len(inputCode) = 0 \/ isPaste(val)) /\ Len(val) > PasteThreshold
                   THEN detectLanguage(val)
                   ELSE language
    /\ inputCode' = val
    /\ handler' = "handleInputChange"
    /\ UNCHANGED <<outputCode, error, notification, timers>>
    /\ UNCHANGED callVars
    /\ UNCHANGED <<timedVars, viewVars>>

Init ==
    /\ InitApp
    /\ pc = "app"
    /\ content = ""
    /\ lang = "none"
    /\ result = "none"
    /\ history = <<>>

Next ==
    \/ HandleMinify
    \/ \E val \in Language \cup {"auto"} : HandleLanguageChange(val)
    \/ \E text \in AppTexts, fileName \in FileNames : HandleInputUpload(text, fileName)
    \/ \E text \in AppTexts, fileName \in FileNames : HandleOutputUpload(text, fileName)
    \/ \E val \in EditTexts : HandleInputChange(val)
    \/ NotificationTimeout

Spec == Init /\ [][Next]_vars

-----------------------------------------------------------------------------
(* The timers of App: the debounce effect (lines 19-31) and showNotification
   (lines 34-37).  Time passes in steps of TickMs; a timer may run once its
   delay has passed, and timers with the same delay run in the order in
   which they were started. *)

\* setTimeout(..., 800) of the debounce effect
DebounceMs == 800

\* setTimeout(..., 3000) of showNotification
NotificationMs == 3000

\* The time that passes in one step, in ms.
TickMs == 400

\* How many timers of showNotification are pending, at most.
MaxNotices == 2

\* What prettier makes of the text a{b:c}, or its failure (an outcome of the
\* library, not of this code).
FormatOutcomes == {Returned("a {\n  b: c;\n}\n"), Threw}

\* A variant of the effect without the cleanup: the timer of the previous run
\* stays pending.
debounceEffectNoCleanup(code, tag, auto, mode) ==
    IF mode = "diff" \/ tag = JSON \/ ~auto \/ trim(code) = ""
    THEN debounce
    ELSE Append(debounce, DebounceMs)

\* The debounce effect after a render in which inputCode, language,
\* autoUpdate or viewMode changed: the cleanup of the previous run clears its
\* timer, then the effect returns early or starts a timer.
debounceEffect(code, tag, auto, mode) ==
    IF mode = "diff" \/ tag = JSON \/ ~auto \/ trim(code) = ""
    THEN <<>>
    ELSE <<DebounceMs>>

\* Time passes.
Tick ==
    /\ pc = "app"
    /\ debounce' = [i \in DOMAIN debounce |->
                        IF debounce[i] > TickMs THEN debounce[i] - TickMs ELSE 0]
    /\ notices' = [i \in DOMAIN notices |->
                       IF notices[i] > TickMs THEN notices[i] - TickMs ELSE 0]
    /\ sinceChange' = IF sinceChange + TickMs < DebounceMs
                      THEN sinceChange + TickMs ELSE DebounceMs
    /\ shownFor' = IF shownFor + TickMs < NotificationMs
                   THEN shownFor + TickMs ELSE NotificationMs
    /\ handler' = "tick"
    /\ UNCHANGED <<inputCode, outputCode, language, error, notification, timers>>
    /\ UNCHANGED <<autoUpdate, viewMode>>
    /\ UNCHANGED <<callVars, viewVars>>

\* A handler sets inputCode, language, autoUpdate or viewMode to new values,
\* and the effect runs after the render.
StateChange(code, tag, auto, mode) ==
    /\ pc = "app"
    /\ <<code, tag, auto, mode>> # <<inputCode, language, autoUpdate, viewMode>>
    /\ inputCode' = code
    /\ language' = tag
    /\ autoUpdate' = auto
    /\ viewMode' = mode
    /\ debounce' = debounceEffect(code, tag, auto, mode)
    /\ sinceChange' = 0
    /\ handler' = "setState"
    /\ UNCHANGED <<outputCode, error, notification, timers, notices, shownFor>>
    /\ UNCHANGED <<callVars, viewVars>>

\* The callback of the timer of the effect: handleBeautify(true).  The effect
\* starts no timer while the language is JSON, so the result goes to the
\* output pane (line 57); a failure is only logged (line 64).
AutoBeautify(formatted) ==
    /\ pc = "app"
    /\ debounce # <<>>
    /\ Head(debounce) = 0
    /\ debounce' = Tail(debounce)
    /\ error' = Null
    /\ outputCode' = IF formatted.threw THEN outputCode ELSE formatted.value
    /\ handler' = "handleBeautify"
    /\ UNCHANGED <<inputCode, language, notification, timers, notices>>
    /\ UNCHANGED <<autoUpdate, viewMode, sinceChange, shownFor>>
    /\ UNCHANGED <<callVars, viewVars>>

\* showNotification(msg), called by a handler.
Notify(msg) ==
    /\ pc = "app"
    /\ Len(notices) < MaxNotices
    /\ notification' = msg
    /\ notices' = Append(notices, NotificationMs)
    /\ timers' = timers + 1
    /\ shownFor' = 0
    /\ handler' = "showNotification"
    /\ UNCHANGED <<inputCode, outputCode, language, error>>
    /\ UNCHANGED <<autoUpdate, viewMode, debounce, sinceChange>>
    /\ UNCHANGED <<callVars, viewVars>>

\* The callback of a timer of showNotification: setNotification(null).
ClearNotification ==
    /\ pc = "app"
    /\ notices # <<>>
    /\ Head(notices) = 0
    /\ notification' = Null
    /\ notices' = Tail(notices)
    /\ timers' = timers - 1
    /\ handler' = "clearNotification"
    /\ UNCHANGED <<inputCode, outputCode, language, error>>
    /\ UNCHANGED <<autoUpdate, viewMode, debounce, sinceChange, shownFor>>
    /\ UNCHANGED <<callVars, viewVars>>

NextTimed ==
    \/ Tick
    \/ \E code \in {"", "a{b:c}"}, tag \in {JSON, CSS}, auto \in BOOLEAN,
          mode \in {"formatter", "diff"} : StateChange(code, tag, auto, mode)
    \/ \E formatted \in FormatOutcomes : AutoBeautify(formatted)
    \/ \E msg \in {"Copied to clipboard!", "Pasted from clipboard"} : Notify(msg)
    \/ ClearNotification

SpecTimed == Init /\ [][NextTimed]_vars

-----------------------------------------------------------------------------
(* The editors that App renders over inputCode and outputCode: the
   JsonVisualEditor of the formatter view while the language is JSON, and
   the DiffViewer of the diff view, on a desktop width.  The language stays
   JSON here. *)

\* The contents the user gives the JSONEditor: text, or a parsed value (json),
\* with or without content errors; the field that is absent holds "" or
\* <<"absent">>.
ViewContents ==
    {[text |-> "[1]", json |-> <<"absent">>, errors |-> FALSE],
     [text |-> "", json |-> <<"absent">>, errors |-> FALSE],
     [text |-> "[1", json |-> <<"absent">>, errors |-> TRUE],
     [text |-> "", json |-> <<"num", "12">>, errors |-> FALSE],
     [text |-> "", json |-> <<"lit", "null">>, errors |-> FALSE],
     [text |-> "", json |-> <<"arr", <<>>>>, errors |-> FALSE]}

\* A variant of line 51 that does not record the value it emits.
lastEmittedUnrecorded(newValue) == lastEmittedValue

\* lastEmittedValue.current = newValue (line 51)
lastEmittedRecorded(newValue) == newValue

\* The onChange of the JSONEditor (lines 40-55), then, when it called the
\* onChange of the parent, handleJsonChange and the sync effect (lines 69-83)
\* on the value that comes back.
EditorChange(updatedContent) ==
    LET falsy == {<<"absent">>, <<"lit", "null">>, <<"lit", "false">>, <<"num", "0">>,
                  <<"str", <<>>>>}
        \* JSON.stringify(json, null, 2) of a number or an empty array has no
        \* white space to add.
        newValue ==
            IF updatedContent.text # "" THEN updatedContent.text
            ELSE IF updatedContent.json \notin falsy THEN JSONstringify(updatedContent.json)
            ELSE ""
        forwarded == ~updatedContent.errors /\ newValue # lastEmittedValue
        pushedBack == /\ forwarded
                      /\ newValue # inputCode
                      /\ newValue # lastEmittedRecorded(newValue)
    IN  /\ pc = "app"
        /\ viewMode = "formatter"
        /\ updatedContent # editorContent
        /\ editorContent' = IF pushedBack
                            THEN TextContent(newValue)
                            ELSE updatedContent
        /\ lastEmittedValue' = IF pushedBack THEN newValue
                               ELSE IF forwarded THEN lastEmittedRecorded(newValue)
                               ELSE lastEmittedValue
        /\ inputCode' = IF forwarded THEN newValue ELSE inputCode
        /\ debounce' = IF forwarded /\ newValue # inputCode
                       THEN debounceEffect(newValue, language, autoUpdate, viewMode)
                       ELSE debounce
        /\ handler' = IF pushedBack THEN "onChange/updateProps"
                      ELSE IF forwarded THEN "onChange"
                      ELSE "editorChange"
        /\ UNCHANGED <<outputCode, language, error, notification, timers>>
        /\ UNCHANGED <<autoUpdate, viewMode, notices, sinceChange, shownFor>>
        /\ UNCHANGED <<models, captured>>
        /\ UNCHANGED callVars

\* onClear of the JsonVisualEditor: setInputCode(''), then the sync effect.
ClearJson ==
    /\ pc = "app"
    /\ viewMode = "formatter"
    /\ inputCode # ""
    /\ inputCode' = ""
    /\ lastEmittedValue' = ""
    /\ editorContent' = IF "" # lastEmittedValue
                        THEN TextContent("")
                        ELSE editorContent
    /\ debounce' = debounceEffect("", language, autoUpdate, viewMode)
    /\ handler' = IF "" # lastEmittedValue THEN "updateProps" ELSE "onClear"
    /\ UNCHANGED <<outputCode, language, error, notification, timers>>
    /\ UNCHANGED <<autoUpdate, viewMode, notices, sinceChange, shownFor>>
    /\ UNCHANGED <<models, captured>>
    /\ UNCHANGED callVars

\* setViewMode(mode): the editor of the view left is unmounted and the
\* editor of the new view is mounted.  handleEditorDidMount sets the models
\* to the props and registers listeners that close over these props; the
\* JsonVisualEditor starts with the value prop.
SetViewMode(mode) ==
    /\ pc = "app"
    /\ mode # viewMode
    /\ viewMode' = mode
    /\ IF mode = "diff"
       THEN /\ models' = [original |-> inputCode, modified |-> outputCode]
            /\ captured' = [original |-> inputCode, modified |-> outputCode]
            /\ editorContent' = Null
            /\ lastEmittedValue' = Null
       ELSE /\ models' = Null
            /\ captured' = Null
            /\ editorContent' = TextContent(inputCode)
            /\ lastEmittedValue' = inputCode
    /\ debounce' = debounceEffect(inputCode, language, autoUpdate, mode)
    /\ handler' = "setViewMode"
    /\ UNCHANGED <<inputCode, outputCode, language, error, notification, timers>>
    /\ UNCHANGED <<autoUpdate, notices, sinceChange, shownFor>>
    /\ UNCHANGED callVars

\* The text of a side of the diff, as a prop, after the side's callback
\* (setInputCode or setOutputCode) was called with val.
SideSet(side, val) ==
    /\ inputCode' = IF side = "original" THEN val ELSE inputCode
    /\ outputCode' = IF side = "modified" THEN val ELSE outputCode
    /\ debounce' = debounceEffect(IF side = "original" THEN val ELSE inputCode,
                                  language, autoUpdate, viewMode)

\* The user edits the model of a side: the listener registered at mount
\* (lines 111-117, 130-136) compares the new text with the prop it closed
\* over, and the sync effect (lines 70-95) finds the model equal to the prop.
EditModel(side, val) ==
    /\ pc = "app"
    /\ viewMode = "diff"
    /\ val # models[side]
    /\ models' = [models EXCEPT ![side] = val]
    /\ IF val # captured[side]
       THEN SideSet(side, val)
       ELSE UNCHANGED <<inputCode, outputCode, debounce>>
    /\ handler' = IF val # captured[side] THEN "onSideChange" ELSE "onDidChangeContent"
    /\ UNCHANGED <<language, error, notification, timers>>
    /\ UNCHANGED <<autoUpdate, viewMode, notices, sinceChange, shownFor>>
    /\ UNCHANGED <<captured, editorContent, lastEmittedValue>>
    /\ UNCHANGED callVars

\* The clear button of a side: the side's callback with '', then the sync
\* effect, which writes the model when its text differs from the prop.
ClearSide(side) ==
    /\ pc = "app"
    /\ viewMode = "diff"
    /\ SideSet(side, "")
    /\ models' = IF models[side] # "" THEN [models EXCEPT ![side] = ""] ELSE models
    /\ handler' = "clearSide"
    /\ UNCHANGED <<language, error, notification, timers>>
    /\ UNCHANGED <<autoUpdate, viewMode, notices, sinceChange, shownFor>>
    /\ UNCHANGED <<captured, editorContent, lastEmittedValue>>
    /\ UNCHANGED callVars

NextViews ==
    \/ \E updatedContent \in ViewContents : EditorChange(updatedContent)
    \/ ClearJson
    \/ \E mode \in {"formatter", "diff"} : SetViewMode(mode)
    \/ \E side \in {"original", "modified"}, val \in {"", "a", "ab"} : EditModel(side, val)
    \/ \E side \in {"original", "modified"} : ClearSide(side)

SpecViews == Init /\ [][NextViews]_vars

-----------------------------------------------------------------------------
(* A sequence of calls of detectLanguage and minifyCode.  Both functions are
   synchronous, so a call runs to completion before the next one starts; every
   pattern is a literal evaluated inside the call, and neither function reads
   or writes anything outside its arguments and its locals. *)

MaxCalls == 3

CallTexts == {"{\"a\": 1}", "{not valid json", "a { color: red; }", " "}

CallTags == {JSON, CSS, HTML}

InitCalls ==
    /\ InitApp
    /\ pc = "idle"
    /\ content = ""
    /\ lang = "none"
    /\ result = "none"
    /\ history = <<>>

Called(fn, text, tag, outcome) ==
    /\ content' = text
    /\ lang' = tag
    /\ result' = outcome
    /\ history' = Append(history, [fn |-> fn, code |-> text, tag |-> tag,
                                   outcome |-> outcome])
    /\ UNCHANGED pc
    /\ UNCHANGED appVars

DetectCall(text) ==
    /\ Len(history) < MaxCalls
    /\ Called("detectLanguage", text, "none", detectLanguage(text))

MinifyCall(text, tag) ==
    /\ Len(history) < MaxCalls
    /\ Called("minifyCode", text, tag, minifyCode(text, tag))

NextCalls ==
    \/ \E text \in CallTexts : DetectCall(text)
    \/ \E text \in CallTexts, tag \in CallTags : MinifyCall(text, tag)

SpecCalls == InitCalls /\ [][NextCalls]_vars

-----------------------------------------------------------------------------
(* Properties of detectLanguage, checked on SpecDetect *)

\* What each step of detectLanguage yields on its own, in the order of the
\* source, the default last.
StepResults(trimmed) ==
    <<jsonStep(trimmed), markupStep(trimmed), sqlStep(trimmed), cssStep(trimmed),
      markdownStep(trimmed), typescriptStep(trimmed), JAVASCRIPT>>

\* The result of the first of the given step results, from number k on, that
\* does not fall through.
FirstOf(results, k) ==
    results[SetMin({i \in k..Len(results) : results[i] # FallThrough})]

\* The tag of the first step, from number k on, whose test matches.
FirstFrom(trimmed, k) == FirstOf(StepResults(trimmed), k)

\* The text holds an SQL statement start or an SQL clause keyword.
hasSqlKeywords(trimmed) ==
    TestI(sqlStartPattern, trimmed) \/ TestI(sqlClausePattern, trimmed)

\* The text is a JSON document whose value is an object or an array.
IsJsonContainer(text) ==
    JSONparse(text).ok /\ JSONparse(text).out[1] \in {"obj", "arr"}

\* The call of the single-call specifications has returned.
Done == pc = "done"

\* C1 (as amended): detectLanguage returns the tag of the first step, in the
\* order JSON, markup, SQL, CSS, Markdown, TypeScript, JavaScript (default),
\* whose test matches (blank text is JSON); a valid JSON object or array that
\* holds SQL keywords is JSON, and text that matches no test is JAVASCRIPT.
C1_FirstMatchingStepWins ==
    Done =>
        /\ result = IF trim(content) = "" THEN JSON ELSE FirstFrom(trim(content), 1)
        /\ IsJsonContainer(content) /\ hasSqlKeywords(trim(content)) => result = JSON
        /\ (trim(content) # "" /\ \A k \in 1..6 : StepResults(trim(content))[k] = FallThrough)
               => result = JAVASCRIPT

\* C1, witness: the JSON object with an SQL statement in a string value, which
\* the SQL step on its own would claim, is detected as JSON.
C1_Witness ==
    /\ Done
    /\ content = "{\"q\": \"SELECT * FROM t\"}"
    /\ sqlStep(trim(content)) = SQL
    /\ result = JSON

\* C1 as stated: the first matching step wins, and every text that is valid
\* JSON and holds SQL keywords inside a string value is classified JSON.
C1_AsStated ==
    Done =>
        /\ result = IF trim(content) = "" THEN JSON ELSE FirstFrom(trim(content), 1)
        /\ JSONparse(content).ok /\ hasSqlKeywords(trim(content)) => result = JSON
        /\ (trim(content) # "" /\ \A k \in 1..6 : StepResults(trim(content))[k] = FallThrough)
               => result = JAVASCRIPT

\* C2 (as amended): for every valid JSON document whose value is an object or
\* an array, detectLanguage returns JSON.
C2_JsonContainersAreJson ==
    Done /\ IsJsonContainer(content) => result = JSON

\* C2, witness: a JSON object with white space around it is detected as JSON.
C2_Witness ==
    /\ Done
    /\ content = " {\"a\": [1, 2.50, true], \"1\": null} "
    /\ IsJsonContainer(content)
    /\ result = JSON

\* C2 as stated: for every valid JSON document, a scalar document included,
\* detectLanguage returns JSON.
C2_AsStated ==
    Done /\ JSONparse(content).ok => result = JSON

\* C3 as stated: the declaration interface Foo { x: number } is classified
\* TYPESCRIPT, the CSS step not claiming it, and the plain function
\* declaration is classified JAVASCRIPT.
C3_AsStated ==
    Done =>
        /\ content = "interface Foo { x: number }"
               => cssStep(trim(content)) = FallThrough /\ result = TYPESCRIPT
        /\ content = "function foo() { return 1; }" => result = JAVASCRIPT

\* C7: detectLanguage returns normally, with one of the eight tags, for every
\* text, text in JSON delimiters that does not parse included.
C7_AlwaysReturnsATag ==
    Done => result \in Language

\* C7, witness: text in braces that does not parse as JSON gets a tag.
C7_Witness ==
    /\ Done
    /\ hasJsonDelimiters(trim(content))
    /\ ~JSONparse(trim(content)).ok
    /\ result \in Language

\* C8: detectLanguage returns JSON for the empty text and for text of white
\* space only.
C8_BlankIsJson ==
    Done /\ (\A i \in 1..Len(content) : charAt(content, i) \in WhiteSpace) => result = JSON

\* C8, witness: a text of white space only, not empty, is detected as JSON.
C8_Witness ==
    /\ Done
    /\ content = "\n\t "
    /\ result = JSON

\* C9: detectLanguage returns JSON only if the trimmed text is empty or is
\* in braces or brackets and parses as JSON; for text in braces or brackets
\* that does not parse, the result is what the later steps yield, never JSON.
C9_FailedParseFallsThrough ==
    Done =>
        /\ result = JSON
               => \/ trim(content) = ""
                  \/ hasJsonDelimiters(trim(content)) /\ JSONparse(trim(content)).ok
        /\ hasJsonDelimiters(trim(content)) /\ ~JSONparse(trim(content)).ok
               => result = FirstFrom(trim(content), 2) /\ result # JSON

\* C9, witness: text in brackets that does not parse is claimed by a later
\* step, here the Markdown step.
C9_Witness ==
    /\ Done
    /\ content = "[a](b) and [c]"
    /\ ~JSONparse(trim(content)).ok
    /\ result = MARKDOWN

\* C10: for every text whose trimmed text starts with "<", detectLanguage
\* returns HTML or XML, whatever else the text holds.
C10_MarkupIsTerminal ==
    Done /\ startsWith(trim(content), "<") => result \in {HTML, XML}

\* C10, witness: text that starts with "<" and goes on with an SQL statement
\* is XML.
C10_Witness ==
    /\ Done
    /\ content = "<x> SELECT a FROM b"
    /\ sqlStep(trim(content)) = SQL
    /\ result = XML

\* The text starts with <?xml and a white space character, in any case.
startsWithXmlDeclaration(text) ==
    startsWith(ToLower(text), "<?xml") /\ charAt(text, 6) \in WhiteSpace

\* The text starts with <!doctype, white space and html, in any case.
startsWithDoctypeHtml(text) ==
    /\ startsWith(ToLower(text), "<!doctype")
    /\ \E n \in 1..Len(text) :
           /\ \A i \in 10..(9 + n) : charAt(text, i) \in WhiteSpace
           /\ slice(ToLower(text), 10 + n, 13 + n) = "html"

\* C11: for text that starts with "<", the sub-tests apply in order: an XML
\* declaration at the start makes it XML, HTML tag names or not; otherwise an
\* HTML doctype at the start makes it HTML; otherwise an opening or closing
\* tag of the HTML tag names makes it HTML; otherwise it is XML.
C11_MarkupSubTestsInOrder ==
    Done /\ startsWith(trim(content), "<") =>
        result = IF startsWithXmlDeclaration(trim(content)) THEN XML
                 ELSE IF startsWithDoctypeHtml(trim(content)) THEN HTML
                 ELSE IF TestI(htmlTags, trim(content)) THEN HTML
                 ELSE XML

\* C11, witness: text with an XML declaration and an HTML tag name is XML.
C11_Witness ==
    /\ Done
    /\ content = "<?xml version=\"1.0\"?><html/>"
    /\ TestI(htmlTags, trim(content))
    /\ result = XML

\* C12: for text that reaches the SQL step (not blank, not JSON in braces or
\* brackets, not starting with "<"), detectLanguage returns SQL when the
\* statement-start pattern or the clause pattern matches and none of the JS
\* keywords const, var, let, function, return, import, export, class occurs
\* as a whole word; when one of them occurs, it never returns SQL.
C12_SqlGuard ==
    Done =>
        /\ (/\ trim(content) # ""
            /\ ~(hasJsonDelimiters(trim(content)) /\ JSONparse(trim(content)).ok)
            /\ ~startsWith(trim(content), "<")
            /\ hasSqlKeywords(trim(content))
            /\ ~Test(isJsPattern, trim(content)))
               => result = SQL
        /\ Test(isJsPattern, trim(content)) => result # SQL

\* C12, witness: script code with an SQL statement in a string literal
\* reaches the SQL step, and is not SQL.
C12_Witness ==
    /\ Done
    /\ content = "const q = \"SELECT * FROM t\""
    /\ hasSqlKeywords(trim(content))
    /\ Test(isJsPattern, trim(content))
    /\ result = JAVASCRIPT

\* C13 as stated: detectLanguage never returns CSS for text that holds one of
\* the words function, class, if, for, while, const, var, let, return, import,
\* export, or the arrow token =>, whatever stands around the arrow.
C13_AsStated ==
    LET jsLikeWords ==
            SeqOf(<<Wb,
                    Words({"function", "class", "if", "for", "while", "const",
                           "var", "let", "return", "import", "export"}),
                    Wb>>)
        hasArrow(text) == \E i \in 1..Len(text) : slice(text, i, i + 1) = "=>"
    IN  Done /\ (Test(jsLikeWords, trim(content)) \/ hasArrow(trim(content)))
            => result # CSS

-----------------------------------------------------------------------------
(* Properties of sequences of calls, checked on SpecCalls *)

-----------------------------------------------------------------------------
(* Properties of minifyCode, checked on SpecMinify *)

\* C5: minifyCode throws exactly when the language is JSON and the text is
\* not blank and not valid JSON, and then returns no text; for every other
\* language it returns for every text.
C5_ThrowsOnlyOnInvalidJson ==
    Done =>
        /\ result.threw <=> (lang = JSON /\ trim(content) # "" /\ ~JSONparse(content).ok)
        /\ result.threw => result = Threw
        /\ lang # JSON => result = Returned(result.value)

\* C5, witness: the text {not valid json, minified as JSON, throws.
C5_Witness ==
    /\ Done
    /\ content = "{not valid json"
    /\ lang = JSON
    /\ result.threw

\* C15: for every language tag, JSON included, minifyCode of an empty or
\* all-whitespace text returns the empty string and does not throw.
C15_BlankMinifiesToEmpty ==
    Done /\ (\A i \in 1..Len(content) : charAt(content, i) \in WhiteSpace)
        => result = Returned("")

\* C15, witness: a text of whitespace only, which is not valid JSON, minified
\* as JSON.
C15_Witness ==
    /\ Done
    /\ content = "\n\t "
    /\ lang = JSON
    /\ ~JSONparse(content).ok
    /\ result = Returned("")

\* C16: JSON minification is idempotent: for a valid JSON text, minifying the
\* output of minifyCode as JSON again returns the same output, and does not
\* throw.
C16_JsonMinifyIdempotent ==
    Done /\ lang = JSON /\ JSONparse(content).ok =>
        /\ ~result.threw
        /\ minifyCode(result.value, JSON) = result

\* C16, witness: an object with white space, an integer key and a number with
\* a trailing zero, whose output differs from the input.
C16_Witness ==
    /\ Done
    /\ lang = JSON
    /\ content = " {\"a\": [1, 2.50, true], \"1\": null} "
    /\ result = Returned("{\"1\":null,\"a\":[1,2.5,true]}")
    /\ minifyCode(result.value, JSON) = result

\* C17: for CSS, JAVASCRIPT, TYPESCRIPT, SQL, MARKDOWN, HTML and XML, the
\* output of minifyCode holds no two white-space characters in a row, for
\* every text.
C17_NoWhiteSpaceRuns ==
    Done /\ lang # JSON =>
        /\ ~result.threw
        /\ \A i \in 1..Len(result.value) :
               ~(/\ charAt(result.value, i) \in WhiteSpace
                 /\ charAt(result.value, i + 1) \in WhiteSpace)

\* C17, witness: runs of spaces and newlines, each collapsed to one space.
C17_Witness ==
    /\ Done
    /\ lang = MARKDOWN
    /\ content = "a   b\n\n c"
    /\ result = Returned("a b c")

\* C18: for HTML and XML, the output of minifyCode holds no ">" followed by
\* white space only up to the next "<", neither starts nor ends with white
\* space, and holds the characters of the text that are not white space, all
\* of them and in the same order.
C18_MarkupGapsRemoved ==
    LET out == result.value
        Chars(s) == [i \in 1..Len(s) |-> charAt(s, i)]
        NonWhiteSpace(s) == SelectSeq(Chars(s), LAMBDA c : c \notin WhiteSpace)
    IN  Done /\ lang \in {HTML, XML} =>
            /\ ~result.threw
            /\ ~\E i, j \in 1..Len(out) :
                   /\ i + 1 < j
                   /\ charAt(out, i) = ">"
                   /\ charAt(out, j) = "<"
                   /\ \A k \in (i + 1)..(j - 1) : charAt(out, k) \in WhiteSpace
            /\ charAt(out, 1) \notin WhiteSpace
            /\ charAt(out, Len(out)) \notin WhiteSpace
            /\ NonWhiteSpace(out) = NonWhiteSpace(content)

\* C18, witness: the white space between the tags goes, the text node x stays.
C18_Witness ==
    /\ Done
    /\ lang = HTML
    /\ content = "<div>  \n  <span>x</span>  </div>"
    /\ result = Returned("<div><span>x</span></div>")

\* C19: for JAVASCRIPT and TYPESCRIPT, minifyCode strips a line comment, from
\* "//" to the end of the line, only when the "//" is at the start of a line
\* or right after a character other than ":" and "\", and it keeps that
\* character: the output is the text without some of these line comments and
\* some of its block comments, white space normalised.  A "//" right after
\* ":" starts no stripped comment, so a line that holds no other comment
\* survives from "://" to its end.
C19_LineCommentNotAfterColon ==
    LET RECURSIVE Without(_, _, _)
        \* The characters of s from index p on whose index is not in gone.
        Without(s, p, gone) ==
            IF p > Len(s) THEN ""
            ELSE (IF p \in gone THEN "" ELSE charAt(s, p)) \o Without(s, p + 1, gone)
        CommentStarts(s) ==
            {p \in 1..Len(s) :
                /\ slice(s, p, p + 1) = "//"
                /\ \/ p = 1
                   \/ charAt(s, p - 1) \in LineTerminators
                   \/ charAt(s, p - 1) \notin {":", "\\"}}
        LineEnd(s, p) ==
            IF \E q \in p..Len(s) : charAt(s, q) \in LineTerminators
            THEN SetMin({q \in p..Len(s) : charAt(s, q) \in LineTerminators}) - 1
            ELSE Len(s)
        LineComments(s) == {p..LineEnd(s, p) : p \in CommentStarts(s)}
        BlockComments(s) ==
            UNION {{p..(e + 1) : e \in {q \in (p + 2)..Len(s) :
                                           /\ slice(s, p, p + 1) = "/*"
                                           /\ slice(s, q, q + 1) = "*/"
                                           /\ \A r \in (p + 2)..(q - 1) :
                                                  slice(s, r, r + 1) # "*/"}} :
                   p \in 1..Len(s)}
    IN  Done /\ lang \in {JAVASCRIPT, TYPESCRIPT} =>
            /\ ~result.threw
            /\ \E stripped \in SUBSET (LineComments(content) \cup BlockComments(content)) :
                   result.value
                       = trim(ReplaceAll(Without(content, 1, UNION stripped), "spaceRun"))

\* C19, witness: the "//" of x://y stays, the comment after the space and the
\* comment at the start of the next line go.
C19_Witness ==
    /\ Done
    /\ lang = JAVASCRIPT
    /\ content = "x://y // z\n//w"
    /\ result = Returned("x://y")

\* C20: for CSS, the output of minifyCode holds no white-space character
\* right before or right after a ":", ";", "{" or "}", and neither starts nor
\* ends with white space.
C20_CssPunctuationTight ==
    LET out == result.value
    IN  Done /\ lang = CSS =>
            /\ ~result.threw
            /\ \A i \in 1..Len(out) :
                   charAt(out, i) \in {":", ";", "{", "}"} =>
                       /\ charAt(out, i - 1) \notin WhiteSpace
                       /\ charAt(out, i + 1) \notin WhiteSpace
            /\ charAt(out, 1) \notin WhiteSpace
            /\ charAt(out, Len(out)) \notin WhiteSpace

\* C20, witness: two rules with white space around every punctuation mark.
C20_Witness ==
    /\ Done
    /\ lang = CSS
    /\ content = "p { a : b ; }\n\nq{ }"
    /\ result = Returned("p{a:b;}q{}")

\* C27 as stated: minifyCode is idempotent for every language tag: when
\* minifyCode returns for a text, it returns the same text for its output.
C27_AsStated ==
    Done /\ ~result.threw => minifyCode(result.value, lang) = result

-----------------------------------------------------------------------------
(* Properties of handleMinify, checked on Spec *)

\* The transform of the language turns the text into the empty text.
TransformIsEmpty(code, tag) == minifyCode(code, tag) = Returned("")

\* The minify request fails: invalid JSON, or an empty result of text that
\* is not blank.
MinifyFails(code, tag) ==
    \/ minifyCode(code, tag).threw
    \/ TransformIsEmpty(code, tag) /\ trim(code) # ""

\* C4: a minify request for text that is not blank, which the transform of
\* the language turns into the empty text, ends with the error, and the
\* empty text is not shown as a result.
C4_EmptyResultIsAnError ==
    [][(handler' = "handleMinify" /\ trim(inputCode) # ""
            /\ TransformIsEmpty(inputCode, language))
         => /\ error' = EmptyResultMessage
            /\ inputCode' = inputCode
            /\ outputCode' = outputCode
            /\ notification' = notification]_vars

\* C4, witness: CSS that is one comment has been minified, with the error.
C4_Witness ==
    /\ handler = "handleMinify"
    /\ inputCode = "/* c */"
    /\ language = CSS
    /\ TransformIsEmpty(inputCode, language)
    /\ error = EmptyResultMessage

\* C6: a minify request that fails leaves inputCode and outputCode as they
\* were and sets an error message.
C6_NoFallbackOutput ==
    [][(handler' = "handleMinify" /\ MinifyFails(inputCode, language))
         => /\ error' # Null
            /\ inputCode' = inputCode
            /\ outputCode' = outputCode]_vars

\* C6, witness: invalid JSON has been minified as JSON: the error is set and
\* the output pane does not hold the input.
C6_Witness ==
    /\ handler = "handleMinify"
    /\ inputCode = "{not valid json"
    /\ language = JSON
    /\ error = SyntaxErrorMessage
    /\ outputCode # inputCode

\* C25: a minify request that succeeds writes the minified text to one pane:
\* to inputCode when the language is JSON, outputCode staying as it was, and
\* to outputCode for every other language, inputCode staying as it was; the
\* language stays as it was and the error is cleared.
C25_OnePaneWritten ==
    [][(handler' = "handleMinify" /\ ~MinifyFails(inputCode, language))
         => /\ IF language = JSON
               THEN /\ inputCode' = minifyCode(inputCode, language).value
                    /\ outputCode' = outputCode
               ELSE /\ outputCode' = minifyCode(inputCode, language).value
                    /\ inputCode' = inputCode
            /\ language' = language
            /\ error' = Null]_vars

\* C25, witness: JSON text has been minified in place, the output pane
\* holding another text.
C25_Witness ==
    /\ handler = "handleMinify"
    /\ language = JSON
    /\ inputCode = "[1,2]"
    /\ outputCode = "/* c */"
    /\ error = Null

\* C26: an edit of the input sets inputCode to the new text; the language is
\* detected again, and becomes detectLanguage of the new text, when the input
\* was empty or the text grew by more than 10 characters, and the new text is
\* longer than 10 characters; in every other case the language stays.
C26_DetectOnPasteOnly ==
    [][handler' = "handleInputChange"
         => /\ inputCode' \in EditTexts
            /\ language' = IF /\ Len(inputCode) = 0 \/ Len(inputCode') - Len(inputCode) > 10
                              /\ Len(inputCode') > 10
                           THEN detectLanguage(inputCode')
                           ELSE language]_vars

\* C26, witness: the text grew by exactly 10 characters, to CSS text, and the
\* language is still the one selected before.
C26_Witness ==
    /\ handler = "handleInputChange"
    /\ inputCode = "a { color: red ; }"
    /\ detectLanguage(inputCode) = CSS
    /\ language = MARKDOWN

-----------------------------------------------------------------------------
(* Properties of the timers of App, checked on SpecTimed *)

\* C23: auto-beautify is debounced: the silent beautify runs only when 800 ms
\* have passed since the last change of inputCode, language, autoUpdate or
\* viewMode; such a change cancels the pending timer, so that at most one
\* timer is pending, and it is a fresh one; and no timer is pending while
\* viewMode is diff, the language is JSON, autoUpdate is off or the input is
\* blank.
C23_AutoBeautifyDebounced ==
    /\ [](Len(debounce) <= 1)
    /\ [](debounce # <<>> => /\ viewMode # "diff"
                             /\ language # JSON
                             /\ autoUpdate
                             /\ trim(inputCode) # "")
    /\ [][handler' = "handleBeautify" => sinceChange >= DebounceMs]_vars
    /\ [][handler' = "setState" => \A i \in DOMAIN debounce' : debounce'[i] = DebounceMs]_vars

\* C23, witness: the silent beautify has run, 800 ms after the last change,
\* and has filled the output pane.
C23_Witness ==
    /\ handler = "handleBeautify"
    /\ sinceChange = DebounceMs
    /\ debounce = <<>>
    /\ inputCode = "a{b:c}"
    /\ outputCode = "a {\n  b: c;\n}\n"

\* C24 as stated: a notification stays set for 3000 ms unless a later one
\* replaces it: when a timer of showNotification clears a notification, the
\* notification has been shown for 3000 ms.
C24_AsStated ==
    [][handler' = "clearNotification" /\ notification # Null
         => shownFor >= NotificationMs]_vars

-----------------------------------------------------------------------------
(* Properties of the editors of App, checked on SpecViews *)

\* C21 as stated: in the diff view, after every sequence of edits of a side,
\* the text the caller holds for the side (inputCode for the original,
\* outputCode for the modified) is the text of the side's model: every edit
\* that makes the model differ from it is reported, an edit back to the text
\* at mount included, and the sync writes the model only when they differ.
C21_AsStated ==
    viewMode = "diff" =>
        /\ models.original = inputCode
        /\ models.modified = outputCode

\* C22: the JsonVisualEditor and its parent cannot enter an update loop: a
\* change of the editor is forwarded to the parent only without content
\* errors and with a text other than lastEmittedValue; a value prop is
\* pushed into the editor only when it differs from lastEmittedValue; and a
\* value the component emitted, coming back as the prop, is never pushed
\* back, so that lastEmittedValue is the text of the parent.
C22_NoUpdateLoop ==
    /\ [](handler # "onChange/updateProps")
    /\ [](viewMode = "formatter" => lastEmittedValue = inputCode)
    /\ [][handler' \in {"onChange", "onChange/updateProps"}
            => /\ ~editorContent'.errors
               /\ inputCode' # lastEmittedValue
               /\ lastEmittedValue' = inputCode']_vars
    /\ [][handler' = "editorChange" => inputCode' = inputCode]_vars
    /\ [][handler' = "updateProps"
            => inputCode' # lastEmittedValue /\ editorContent' = TextContent(inputCode')]_vars
    /\ [][handler' = "onClear" => editorContent' = editorContent]_vars

\* C22, witness: the editor's change to the number 12 was forwarded, the text
\* came back as the value prop, and the editor kept its own content.
C22_Witness ==
    /\ handler = "onChange"
    /\ viewMode = "formatter"
    /\ editorContent = [text |-> "", json |-> <<"num", "12">>, errors |-> FALSE]
    /\ inputCode = "12"
    /\ lastEmittedValue = "12"

=============================================================================
